---- MODULE Spec2Model ----
(***************************************************************************)
(* The simulation engine of a3.py: Grid (a Python dict from Position to    *)
(* Entity, kept here in insertion order, which is the order a dict is      *)
(* iterated in) and Game (rotate_grid, step, fire, has_won, has_lost).     *)
(* The names imported from a3_support (display tags, shot types,           *)
(* directions, offsets, targets) are not part of the sources and are       *)
(* modelled from the specification.                                        *)
(***************************************************************************)
EXTENDS Integers, Sequences, FiniteSets, TLC

\* ---------------------------------------------------------------- bounds
\* Game(size) is constructed with each of these sizes: the two sizes below
\* 3, and 3, the smallest grid with a row above row 1.
Sizes == {1, 2, 3}
\* The caller adds entities only while the grid holds fewer than this many.
MaxEntities == 2
\* fire is called only while total_shots is below this.
MaxShots == 1

\* In the games played up to a win the caller adds entities only while the
\* grid holds fewer than this many,
MaxWinEntities == 1
\* and fire is called only while total_shots is below this.
MaxWinShots == 3

\* In the calls made on a Grid and on _create_entity alone, add_entity is
\* called only when the grid holds at most this many entities afterwards.
MaxGridEntities == 1

\* In the games left to their steps, a step is taken only while the grid
\* holds fewer entities than this.
MaxSpawnEntities == 3

\* Under a controller, the timer's step is taken only while the grid holds
\* fewer entities than this,
MaxCtlEntities == 2
\* and a shot key is taken only while fewer shots than this were fired.
MaxCtlShots == 2

\* ------------------------------------------------- names of a3_support
PLAYER == "P"
DESTROYABLE == "D"
COLLECTABLE == "C"
BLOCKER == "B"
DESTROY == "destroy"
COLLECT == "collect"
SHOT_TYPES == <<COLLECT, DESTROY>>
LEFT == "left"
RIGHT == "right"
DIRECTIONS == <<LEFT, RIGHT>>
ROTATIONS == << <<-1, 0>>, <<1, 0>> >>
MOVE == <<0, -1>>
ENTITY_TYPES == <<COLLECTABLE, DESTROYABLE>>
\* The number of Collectables to collect for a win: a fixed positive
\* integer of the session.
COLLECTION_TARGET == 2

\* ------------------------------------------------------------- entities
\* An entity carries no state: it is its class.
EntityClasses == {"Player", "Destroyable", "Collectable", "Blocker"}

\* Python's None.
None == "None"

\* Entity.display of each subclass.
display(entity) ==
    CASE entity = "Player" -> PLAYER
      [] entity = "Destroyable" -> DESTROYABLE
      [] entity = "Collectable" -> COLLECTABLE
      [] entity = "Blocker" -> BLOCKER

\* ------------------------------------------------------- dict primitives
\* A dict is a sequence of items [pos, entity] with pairwise distinct pos,
\* in insertion order.
dict_keys(d) == {d[i].pos : i \in 1..Len(d)}

dict_index(d, k) == CHOOSE i \in 1..Len(d) : d[i].pos = k

\* d.get(k)
dict_get(d, k) == IF k \in dict_keys(d) THEN d[dict_index(d, k)].entity ELSE None

\* d[k] = v : an existing key keeps its place, a new key goes last.
dict_set(d, k, v) ==
    IF k \in dict_keys(d)
    THEN [d EXCEPT ![dict_index(d, k)] = [pos |-> k, entity |-> v]]
    ELSE Append(d, [pos |-> k, entity |-> v])

\* d.pop(k) for a key that is present.
dict_pop(d, k) ==
    LET i == dict_index(d, k)
    IN  SubSeq(d, 1, i - 1) \o SubSeq(d, i + 1, Len(d))

\* ----------------------------------------------------------------- Grid
\* in_bounds with row 0 taken for a row of the grid.
in_bounds_row0(sz, position) ==
    /\ 0 <= position[1] /\ position[1] < sz
    /\ 0 <= position[2] /\ position[2] < sz

\* in_bounds with the size itself taken for a valid coordinate.
in_bounds_incl(sz, position) ==
    /\ 0 <= position[1] /\ position[1] <= sz
    /\ 1 <= position[2] /\ position[2] <= sz

in_bounds(sz, position) ==
    /\ 0 <= position[1] /\ position[1] < sz
    /\ 1 <= position[2] /\ position[2] < sz

\* add_entity that keeps the entity already at the position.
add_entity_keep(es, sz, position, entity) ==
    IF in_bounds(sz, position) /\ position \notin dict_keys(es)
    THEN dict_set(es, position, entity)
    ELSE es

add_entity(es, sz, position, entity) ==
    IF in_bounds(sz, position) THEN dict_set(es, position, entity) ELSE es

get_entity(es, position) == dict_get(es, position)

remove_entity(es, position) ==
    IF position \in dict_keys(es) THEN dict_pop(es, position) ELSE es

\* serialise(): the coordinate -> tag pairs, as a set.
serialise(es) == {<<es[i].pos, display(es[i].entity)>> : i \in 1..Len(es)}

\* ---------------------------------------------------------------- state
VARIABLES
    size,             \* Game._size, Grid._size
    entities,         \* Grid._entities
    player_position,  \* Game._player_position
    num_collected,    \* Game._num_collected
    num_destroyed,    \* Game._num_destroyed
    total_shots,      \* Game._total_shots
    game_over,        \* Game._game_over
    op,               \* the last call made on the game: its name and argument
    raised,           \* the exception that call raised, or None
    returned,         \* the value that call returned, or None
    timer             \* a call of the controller's step is scheduled with after()

vars == <<size, entities, player_position, num_collected, num_destroyed,
          total_shots, game_over, op, raised, returned, timer>>

\* Game.__init__ (and Grid.__init__)
Init ==
    /\ size \in Sizes
    /\ game_over = FALSE
    /\ entities = <<>>
    /\ player_position = <<size \div 2, 0>>
    /\ num_collected = 0
    /\ num_destroyed = 0
    /\ total_shots = 0
    /\ op = [name |-> "init", arg |-> None]
    /\ raised = None
    /\ returned = None
    /\ timer = FALSE

\* ------------------------------------------------------ Grid.add_entity
\* A call grid.add_entity(position, entity).
add_entity_call(position, entity) ==
    /\ entities' = add_entity(entities, size, position, entity)
    /\ op' = [name |-> "add_entity", arg |-> None]
    /\ raised' = None
    /\ returned' = None
    /\ UNCHANGED <<size, player_position, num_collected, num_destroyed,
                   total_shots, game_over, timer>>

AddEntity(position, entity) ==
    /\ Len(entities) < MaxEntities
    /\ add_entity_call(position, entity)

\* ----------------------------------------------------- Game.rotate_grid
\* DIRECTIONS.index(direction)
direction_index(direction) == CHOOSE i \in 1..Len(DIRECTIONS) : DIRECTIONS[i] = direction

\* The for loop of rotate_grid from item i on.
RECURSIVE rotate_loop(_, _, _, _, _)
rotate_loop(items, i, new_entities, next_pos, sz) ==
    IF i > Len(items) THEN new_entities
    ELSE LET current_position == items[i].pos
             x == (current_position[1] + next_pos[1]) % sz
         IN  rotate_loop(items, i + 1,
                         dict_set(new_entities, <<x, current_position[2]>>, items[i].entity),
                         next_pos, sz)

\* rotate_grid that clamps at the edges instead of wrapping.
RECURSIVE rotate_loop_clamp(_, _, _, _, _)
rotate_loop_clamp(items, i, new_entities, next_pos, sz) ==
    IF i > Len(items) THEN new_entities
    ELSE LET current_position == items[i].pos
             moved == current_position[1] + next_pos[1]
             x == IF moved < 0 THEN 0 ELSE IF moved > sz - 1 THEN sz - 1 ELSE moved
         IN  rotate_loop_clamp(items, i + 1,
                               dict_set(new_entities, <<x, current_position[2]>>,
                                        items[i].entity),
                               next_pos, sz)

rotate_grid_clamp(es, direction, sz) ==
    rotate_loop_clamp(es, 1, <<>>, ROTATIONS[direction_index(direction)], sz)

\* rotate_grid without the modulo.
RECURSIVE rotate_loop_nowrap(_, _, _, _, _)
rotate_loop_nowrap(items, i, new_entities, next_pos, sz) ==
    IF i > Len(items) THEN new_entities
    ELSE LET current_position == items[i].pos
             x == current_position[1] + next_pos[1]
         IN  rotate_loop_nowrap(items, i + 1,
                                dict_set(new_entities, <<x, current_position[2]>>,
                                         items[i].entity),
                                next_pos, sz)

rotate_grid_nowrap(es, direction, sz) ==
    rotate_loop_nowrap(es, 1, <<>>, ROTATIONS[direction_index(direction)], sz)

rotate_grid(es, direction, sz) ==
    rotate_loop(es, 1, <<>>, ROTATIONS[direction_index(direction)], sz)

\* A rotation that moves the player along row 0 and leaves the grid alone.
RotateGrid_player(direction) ==
    /\ player_position' =
          <<(player_position[1] - ROTATIONS[direction_index(direction)][1]) % size, 0>>
    /\ op' = [name |-> "rotate_grid", arg |-> direction]
    /\ raised' = None
    /\ returned' = None
    /\ UNCHANGED <<size, entities, num_collected, num_destroyed, total_shots,
                   game_over, timer>>

RotateGrid(direction) ==
    /\ entities' = rotate_grid(entities, direction, size)
    /\ op' = [name |-> "rotate_grid", arg |-> direction]
    /\ raised' = None
    /\ returned' = None
    /\ UNCHANGED <<size, player_position, num_collected, num_destroyed,
                   total_shots, game_over, timer>>

\* -------------------------------------------------- Game._create_entity
\* The class object Player, which the first test compares the display
\* character with.
Player == "<class Player>"

NotImplementedError == "NotImplementedError"
ValueError == "ValueError"

\* Returns the entity, or NotImplementedError when the method raises it.
create_entity(d) ==
    IF d = Player THEN "Player"
    ELSE IF d = DESTROYABLE THEN "Destroyable"
    ELSE IF d = COLLECTABLE THEN "Collectable"
    ELSE IF d = BLOCKER THEN "Blocker"
    ELSE NotImplementedError

\* ------------------------------------------------ Game.generate_entities
\* random.sample(range(sz), k): every sequence of k distinct columns.
sample(sz, k) ==
    {s \in [1..k -> 0..(sz - 1)] : \A i, j \in 1..k : i # j => s[i] # s[j]}

\* random.choices(ENTITY_TYPES, k=k)
choices(k) == [1..k -> {ENTITY_TYPES[i] : i \in 1..Len(ENTITY_TYPES)}]

\* An add loop that adds nothing once the game is over.
add_loop_alive(es, sz, entity_index, kinds, i) ==
    [entities |-> IF game_over' THEN es ELSE es \o
                     [j \in 1..Len(kinds) |->
                         [pos |-> <<entity_index[j], sz - 1>>,
                          entity |-> create_entity(kinds[j])]],
     raised |-> None]

\* The loop over zip(entity_index, entities) from pair i on: the grid it
\* leaves and the exception that ended it, if any.
RECURSIVE add_loop(_, _, _, _, _)
add_loop(es, sz, entity_index, kinds, i) ==
    IF i > Len(entity_index) \/ i > Len(kinds) THEN [entities |-> es, raised |-> None]
    ELSE LET position == <<entity_index[i], sz - 1>>
             new_entity == create_entity(kinds[i])
         IN  IF new_entity = NotImplementedError
             THEN [entities |-> es, raised |-> NotImplementedError]
             ELSE add_loop(add_entity(es, sz, position, new_entity), sz,
                           entity_index, kinds, i + 1)

\* A spawn count drawn from 0..(sz - 2).
entity_counts_wide(sz) == 0..(sz - 2)

\* random.randint(0, sz - 3), for sz >= 3.
entity_counts(sz) == 0..(sz - 3)

\* A kind list that ends with two Blockers when a Blocker is spawned.
spawn_kinds_two(drawn, blocker) ==
    IF blocker THEN drawn \o <<BLOCKER, BLOCKER>> ELSE drawn

\* The kind list: the drawn kinds, then BLOCKER when one is spawned.
spawn_kinds(drawn, blocker) == IF blocker THEN Append(drawn, BLOCKER) ELSE drawn

\* ------------------------------------------------------------ Game.step
\* The gravity loop with every entity that reaches row 0 ending the game.
RECURSIVE step_loop_any(_, _, _, _)
step_loop_any(items, i, new_entities, over) ==
    IF i > Len(items) THEN [entities |-> new_entities, game_over |-> over]
    ELSE LET position == items[i].pos
             y == position[2] + MOVE[2]
         IN  IF y >= 1
             THEN step_loop_any(items, i + 1,
                                dict_set(new_entities, <<position[1], y>>,
                                         items[i].entity), over)
             ELSE [entities |-> new_entities, game_over |-> TRUE]

\* The gravity loop with the test y > 1 in place of y >= 1.
RECURSIVE step_loop_strict(_, _, _, _)
step_loop_strict(items, i, new_entities, over) ==
    IF i > Len(items) THEN [entities |-> new_entities, game_over |-> over]
    ELSE LET position == items[i].pos
             entity == items[i].entity
             y == position[2] + MOVE[2]
         IN  IF y > 1
             THEN step_loop_strict(items, i + 1,
                                   dict_set(new_entities, <<position[1], y>>, entity),
                                   over)
             ELSE IF entity = "Destroyable"
                  THEN [entities |-> new_entities, game_over |-> TRUE]
                  ELSE step_loop_strict(items, i + 1, new_entities, over)

\* The gravity loop that sets the flag at a Destroyable in row 1 and goes on
\* with the next item.
RECURSIVE step_loop_continue(_, _, _, _)
step_loop_continue(items, i, new_entities, over) ==
    IF i > Len(items) THEN [entities |-> new_entities, game_over |-> over]
    ELSE LET position == items[i].pos
             entity == items[i].entity
             y == position[2] + MOVE[2]
         IN  IF y >= 1
             THEN step_loop_continue(items, i + 1,
                                     dict_set(new_entities, <<position[1], y>>, entity),
                                     over)
             ELSE step_loop_continue(items, i + 1, new_entities,
                                     over \/ entity = "Destroyable")

\* The gravity loop that ends the game only for a Destroyable that reaches
\* row 0 in the player's column.
RECURSIVE step_loop_column(_, _, _, _)
step_loop_column(items, i, new_entities, over) ==
    IF i > Len(items) THEN [entities |-> new_entities, game_over |-> over]
    ELSE LET position == items[i].pos
             entity == items[i].entity
             y == position[2] + MOVE[2]
         IN  IF y >= 1
             THEN step_loop_column(items, i + 1,
                                   dict_set(new_entities, <<position[1], y>>, entity),
                                   over)
             ELSE IF entity = "Destroyable" /\ position[1] = player_position[1]
                  THEN [entities |-> new_entities, game_over |-> TRUE]
                  ELSE step_loop_column(items, i + 1, new_entities, over)

\* The gravity loop from item i on; the break leaves the loop with what
\* was carried forward so far.
RECURSIVE step_loop(_, _, _, _)
step_loop(items, i, new_entities, over) ==
    IF i > Len(items) THEN [entities |-> new_entities, game_over |-> over]
    ELSE LET position == items[i].pos
             entity == items[i].entity
             y == position[2] + MOVE[2]
         IN  IF y >= 1
             THEN step_loop(items, i + 1,
                            dict_set(new_entities, <<position[1], y>>, entity), over)
             ELSE IF entity = "Destroyable"
                  THEN [entities |-> new_entities, game_over |-> TRUE]
                  ELSE step_loop(items, i + 1, new_entities, over)

\* A gravity pass that leaves the grid alone once the game is won.
gravity_won(es, over) ==
    IF num_collected >= COLLECTION_TARGET
    THEN [entities |-> es, game_over |-> over]
    ELSE step_loop(es, 1, <<>>, over)

\* A gravity pass that starts each step with the flag cleared.
gravity_reset(es, over) == step_loop(es, 1, <<>>, FALSE)

\* The gravity pass of one step: the loop over all items of the grid.
gravity(es, over) == step_loop(es, 1, <<>>, over)

step_call ==
    LET moved == gravity(entities, game_over)
    IN  /\ game_over' = moved.game_over
        /\ IF size - 3 < 0
           THEN \* random.randint(0, size - 3) raises ValueError: empty range
                /\ entities' = moved.entities
                /\ raised' = ValueError
           ELSE \E entity_count \in entity_counts(size), blocker \in BOOLEAN :
                \E drawn \in choices(entity_count) :
                LET kinds == spawn_kinds(drawn, blocker)
                IN  \E entity_index \in sample(size, Len(kinds)) :
                    LET spawned == add_loop(moved.entities, size, entity_index, kinds, 1)
                    IN  /\ entities' = spawned.entities
                        /\ raised' = spawned.raised
        /\ op' = [name |-> "step", arg |-> None]
        /\ returned' = None
        /\ UNCHANGED <<size, player_position, num_collected, num_destroyed,
                       total_shots>>

\* A call game.step() made on the game directly.
Step == step_call /\ UNCHANGED timer

\* ------------------------------------------------------------ Game.fire
\* The scan without the break after a hit: it goes on up the column.
RECURSIVE fire_loop_nobreak(_, _, _, _, _, _, _)
fire_loop_nobreak(es, x, y, sz, shot_type, destroyed, collected) ==
    IF y >= sz
    THEN [entities |-> es, num_destroyed |-> destroyed, num_collected |-> collected]
    ELSE LET position == <<x, y>>
             entity == get_entity(es, position)
             stop == [entities |-> es, num_destroyed |-> destroyed,
                      num_collected |-> collected]
         IN  IF entity = "Blocker" THEN stop
             ELSE IF entity = "Destroyable"
             THEN IF shot_type = DESTROY
                  THEN fire_loop_nobreak(remove_entity(es, position), x, y + 1, sz,
                                         shot_type, destroyed + 1, collected)
                  ELSE stop
             ELSE IF entity = "Collectable"
             THEN IF shot_type = COLLECT
                  THEN fire_loop_nobreak(remove_entity(es, position), x, y + 1, sz,
                                         shot_type, destroyed, collected + 1)
                  ELSE stop
             ELSE fire_loop_nobreak(es, x, y + 1, sz, shot_type, destroyed, collected)

\* The scan run from the top row down to row y: it resolves against the
\* highest occupied cell.
RECURSIVE fire_loop_down(_, _, _, _, _, _, _)
fire_loop_down(es, x, y, sz, shot_type, destroyed, collected) ==
    IF sz - 1 < y
    THEN [entities |-> es, num_destroyed |-> destroyed, num_collected |-> collected]
    ELSE LET position == <<x, sz - 1>>
             entity == get_entity(es, position)
             stop == [entities |-> es, num_destroyed |-> destroyed,
                      num_collected |-> collected]
         IN  IF entity = "Blocker" THEN stop
             ELSE IF entity = "Destroyable"
             THEN IF shot_type = DESTROY
                  THEN [entities |-> remove_entity(es, position),
                        num_destroyed |-> destroyed + 1, num_collected |-> collected]
                  ELSE stop
             ELSE IF entity = "Collectable"
             THEN IF shot_type = COLLECT
                  THEN [entities |-> remove_entity(es, position),
                        num_destroyed |-> destroyed, num_collected |-> collected + 1]
                  ELSE stop
             ELSE fire_loop_down(es, x, y, sz - 1, shot_type, destroyed, collected)

\* The scan with a Blocker passed over like an empty cell.
RECURSIVE fire_loop_pierce(_, _, _, _, _, _, _)
fire_loop_pierce(es, x, y, sz, shot_type, destroyed, collected) ==
    IF y >= sz
    THEN [entities |-> es, num_destroyed |-> destroyed, num_collected |-> collected]
    ELSE LET position == <<x, y>>
             entity == get_entity(es, position)
             stop == [entities |-> es, num_destroyed |-> destroyed,
                      num_collected |-> collected]
         IN  IF entity = "Destroyable"
             THEN IF shot_type = DESTROY
                  THEN [entities |-> remove_entity(es, position),
                        num_destroyed |-> destroyed + 1, num_collected |-> collected]
                  ELSE stop
             ELSE IF entity = "Collectable"
             THEN IF shot_type = COLLECT
                  THEN [entities |-> remove_entity(es, position),
                        num_destroyed |-> destroyed, num_collected |-> collected + 1]
                  ELSE stop
             ELSE fire_loop_pierce(es, x, y + 1, sz, shot_type, destroyed, collected)

\* The scan of the player's column from row y on: the grid and the two
\* counters it leaves.
RECURSIVE fire_loop(_, _, _, _, _, _, _)
fire_loop(es, x, y, sz, shot_type, destroyed, collected) ==
    IF y >= sz
    THEN [entities |-> es, num_destroyed |-> destroyed, num_collected |-> collected]
    ELSE LET position == <<x, y>>
             entity == get_entity(es, position)
             stop == [entities |-> es, num_destroyed |-> destroyed,
                      num_collected |-> collected]
         IN  IF entity # None
             THEN IF entity = "Blocker" THEN stop
                  ELSE IF entity = "Destroyable"
                  THEN IF shot_type = DESTROY
                       THEN [entities |-> remove_entity(es, position),
                             num_destroyed |-> destroyed + 1,
                             num_collected |-> collected]
                       ELSE stop
                  ELSE IF entity = "Collectable"
                  THEN IF shot_type = COLLECT
                       THEN [entities |-> remove_entity(es, position),
                             num_destroyed |-> destroyed,
                             num_collected |-> collected + 1]
                       ELSE stop
                  ELSE fire_loop(es, x, y + 1, sz, shot_type, destroyed, collected)
             ELSE fire_loop(es, x, y + 1, sz, shot_type, destroyed, collected)

\* A shot that is not counted.
count_shot_none(shots) == shots

\* self._total_shots += 1
count_shot(shots) == shots + 1

\* A call game.fire(shot_type).
fire_call(shot_type) ==
    /\ total_shots' = count_shot(total_shots)
    /\ LET hit == fire_loop(entities, player_position[1], 1, size, shot_type,
                            num_destroyed, num_collected)
       IN  /\ entities' = hit.entities
           /\ num_destroyed' = hit.num_destroyed
           /\ num_collected' = hit.num_collected
    /\ op' = [name |-> "fire", arg |-> shot_type]
    /\ raised' = None
    /\ returned' = None
    /\ UNCHANGED <<size, player_position, game_over, timer>>

Fire(shot_type) ==
    /\ total_shots < MaxShots
    /\ fire_call(shot_type)

\* --------------------------------------------------------- Game.has_won
\* A comparison with > in place of >=.
has_won_strict == num_collected > COLLECTION_TARGET

has_won == num_collected >= COLLECTION_TARGET

\* -------------------------------------------------------- Game.has_lost
has_lost == game_over

\* -------------------------------------------------------- specification
\* The positions a caller passes to add_entity: in and out of bounds on
\* every side.
Coordinates == (-1)..size
Positions == Coordinates \X Coordinates

\* The entities a caller stores: the kinds the game itself puts in the grid
\* (the player is drawn by the view and is not stored in the grid).
Stored == {"Destroyable", "Collectable", "Blocker"}

Next ==
    \/ \E position \in Positions, entity \in Stored : AddEntity(position, entity)
    \/ \E direction \in {LEFT, RIGHT} : RotateGrid(direction)
    \/ Step
    \/ \E shot_type \in {COLLECT, DESTROY} : Fire(shot_type)

Spec == Init /\ [][Next]_vars

\* ------------------------------------- calls on the Grid and the factory
\* A call grid.add_entity(position, entity) with any entity, its arguments
\* kept in op.
GridAdd(position, entity) ==
    /\ Len(add_entity(entities, size, position, entity)) <= MaxGridEntities
    /\ entities' = add_entity(entities, size, position, entity)
    /\ op' = [name |-> "add_entity", arg |-> <<position, entity>>]
    /\ raised' = None
    /\ returned' = None
    /\ UNCHANGED <<size, player_position, num_collected, num_destroyed,
                   total_shots, game_over, timer>>

\* A call grid.remove_entity(position).
RemoveEntity(position) ==
    /\ entities' = remove_entity(entities, position)
    /\ op' = [name |-> "remove_entity", arg |-> position]
    /\ raised' = None
    /\ returned' = None
    /\ UNCHANGED <<size, player_position, num_collected, num_destroyed,
                   total_shots, game_over, timer>>

\* A call grid.serialise().
Serialise ==
    /\ returned' = serialise(entities)
    /\ op' = [name |-> "serialise", arg |-> None]
    /\ raised' = None
    /\ UNCHANGED <<size, entities, player_position, num_collected, num_destroyed,
                   total_shots, game_over, timer>>

\* The strings passed to _create_entity: the four display characters and
\* others.
DisplayInputs == {PLAYER, DESTROYABLE, COLLECTABLE, BLOCKER, "O", "X", "p", ""}

\* A call game._create_entity(d).
CreateEntity(d) ==
    /\ LET made == create_entity(d)
       IN  IF made = NotImplementedError
           THEN raised' = NotImplementedError /\ returned' = None
           ELSE raised' = None /\ returned' = made
    /\ op' = [name |-> "_create_entity", arg |-> d]
    /\ UNCHANGED <<size, entities, player_position, num_collected, num_destroyed,
                   total_shots, game_over, timer>>

GridNext ==
    \/ \E position \in Positions, entity \in EntityClasses : GridAdd(position, entity)
    \/ \E position \in Positions : RemoveEntity(position)
    \/ Serialise
    \/ \E d \in DisplayInputs : CreateEntity(d)

GridSpec == Init /\ [][GridNext]_vars

\* --------------------------------------------- games left to their steps
\* The sizes of the games that only step: the smallest one that spawns
\* and the smallest one that spawns Destroyables and Collectables.
SpawnSizes == {3, 4}

SpawnInit ==
    /\ size \in SpawnSizes
    /\ game_over = FALSE
    /\ entities = <<>>
    /\ player_position = <<size \div 2, 0>>
    /\ num_collected = 0
    /\ num_destroyed = 0
    /\ total_shots = 0
    /\ op = [name |-> "init", arg |-> None]
    /\ raised = None
    /\ returned = None
    /\ timer = FALSE

\* A step of a grid that has not filled up.
SpawnStep == Len(entities) < MaxSpawnEntities /\ Step

SpawnSpec == SpawnInit /\ [][SpawnStep]_vars

\* ------------------------------------------------------ HackerController
\* The sizes of the games under a controller.
CtlSizes == {2, 3, 4}

\* HackerController.__init__ and AdvancedHackerController.__init__: a new
\* Game, and the first step scheduled with after(2000, self.step).
ControllerInit ==
    /\ size \in CtlSizes
    /\ game_over = FALSE
    /\ entities = <<>>
    /\ player_position = <<size \div 2, 0>>
    /\ num_collected = 0
    /\ num_destroyed = 0
    /\ total_shots = 0
    /\ op = [name |-> "init", arg |-> None]
    /\ raised = None
    /\ returned = None
    /\ timer = TRUE

\* HackerController.step and AdvancedHackerController.step, run by the
\* timer: game.step(), draw, then after(2000, self.step). An exception of
\* game.step() leaves the callback before after() is reached.
ControllerStep ==
    /\ timer
    /\ Len(entities) < MaxCtlEntities
    /\ step_call
    /\ timer' = (raised' = None)

\* HackerController.handle_rotate
handle_rotate(direction) == RotateGrid(direction)

\* HackerController.handle_fire
handle_fire(shot_type) == fire_call(shot_type)

\* The values of event.keysym.upper(): the keys of DIRECTIONS and
\* SHOT_TYPES and a key bound to nothing.
Keys == {LEFT, RIGHT, COLLECT, DESTROY, "Q"}

\* HackerController.handle_keypress with key_press = event.keysym.upper()
HandleKeypress(key_press) ==
    IF key_press \in {DIRECTIONS[i] : i \in 1..Len(DIRECTIONS)}
    THEN handle_rotate(key_press)
    ELSE IF key_press \in {SHOT_TYPES[i] : i \in 1..Len(SHOT_TYPES)}
         THEN total_shots < MaxCtlShots /\ handle_fire(key_press)
         ELSE UNCHANGED vars

ControllerNext ==
    \/ ControllerStep
    \/ \E key_press \in Keys : HandleKeypress(key_press)

ControllerSpec == ControllerInit /\ [][ControllerNext]_vars

\* Games played up to a win and beyond it: few entities at a time, more
\* shots.
WinNext ==
    \/ \E position \in Positions, entity \in Stored :
          Len(entities) < MaxWinEntities /\ add_entity_call(position, entity)
    \/ \E direction \in {LEFT, RIGHT} : RotateGrid(direction)
    \/ Step
    \/ \E shot_type \in {COLLECT, DESTROY} :
          total_shots < MaxWinShots /\ fire_call(shot_type)

WinSpec == Init /\ [][WinNext]_vars

\* ======================================================================
\* Properties
\* ======================================================================
\* The grid as a mapping, without its iteration order.
Items(es) == {es[i] : i \in 1..Len(es)}

\* The entities of column x, and the one in its lowest occupied row.
ColumnItems(es, x) == {it \in Items(es) : it.pos[1] = x}
Lowest(es, x) ==
    CHOOSE it \in ColumnItems(es, x) : \A o \in ColumnItems(es, x) : it.pos[2] <= o.pos[2]

\* The player's column, size // 2.
PlayerColumn == size \div 2

\* The entities of row y.
RowItems(es, y) == {it \in Items(es) : it.pos[2] = y}

\* C1: every key of the grid mapping has 0 <= x < size and 1 <= y < size;
\* no entity is stored in row 0.
C1_KeysInBounds ==
    \A it \in Items(entities) :
        /\ 0 <= it.pos[1] /\ it.pos[1] < size
        /\ 1 <= it.pos[2] /\ it.pos[2] < size

\* C1 witness: after a rotation an entity sits in the last column and one
\* in row 1, the row next to the player's.
C1_Witness ==
    /\ op.name = "rotate_grid"
    /\ \E it \in Items(entities) : it.pos[1] = size - 1
    /\ RowItems(entities, 1) # {}

\* C2: the three counters are naturals, total_shots >= num_collected +
\* num_destroyed in every state, and no call decreases any of them.
C2_CountersState ==
    /\ num_collected \in Nat /\ num_destroyed \in Nat /\ total_shots \in Nat
    /\ total_shots >= num_collected + num_destroyed

C2_Counters ==
    /\ []C2_CountersState
    /\ [][/\ num_collected' >= num_collected
          /\ num_destroyed' >= num_destroyed
          /\ total_shots' >= total_shots]_vars

\* C2 witness: a shot that hit, so that total_shots equals the sum of the
\* other two counters and is positive.
C2_Witness ==
    /\ op.name = "fire"
    /\ total_shots > 0
    /\ total_shots = num_collected + num_destroyed

\* C3: game_over starts false and no step, fire or rotate_grid (nor
\* add_entity) takes has_lost() from true back to false.
C3_GameOverAbsorbing ==
    /\ has_lost = FALSE
    /\ [][has_lost => has_lost']_vars

\* C3 witness: the game is lost and a fire, which never sets the flag, was
\* the last call: the flag outlived a later call.
C3_Witness == has_lost /\ op.name = "fire"

C5_Step ==
    LET col == ColumnItems(entities, PlayerColumn)
    IN  (op'.name = "fire" /\ col # {}) =>
        LET low == Lowest(entities, PlayerColumn)
        IN  /\ (low.entity = "Destroyable" /\ op'.arg = DESTROY) =>
                 /\ Items(entities') = Items(entities) \ {low}
                 /\ Len(entities') = Len(entities) - 1
                 /\ num_destroyed' = num_destroyed + 1
                 /\ num_collected' = num_collected
            /\ (low.entity = "Collectable" /\ op'.arg = COLLECT) =>
                 /\ Items(entities') = Items(entities) \ {low}
                 /\ Len(entities') = Len(entities) - 1
                 /\ num_collected' = num_collected + 1
                 /\ num_destroyed' = num_destroyed

C5_FireRemovesLowest == [][C5_Step]_vars

\* C5 witness: a Destroy shot that destroyed one entity while another
\* entity of the player's column, above it, is still there.
C5_Witness ==
    /\ op.name = "fire" /\ op.arg = DESTROY
    /\ num_destroyed = 1 /\ total_shots = 1
    /\ ColumnItems(entities, PlayerColumn) # {}

\* C6: when the player's column is empty, or its lowest occupied cell is a
\* Blocker, a Destroyable under a Collect shot or a Collectable under a
\* Destroy shot, fire changes total_shots only: the grid, num_destroyed and
\* num_collected stay as they were, whatever sits higher in the column.
Absorbed(es, x, shot_type) ==
    \/ ColumnItems(es, x) = {}
    \/ /\ ColumnItems(es, x) # {}
       /\ \/ Lowest(es, x).entity = "Blocker"
          \/ Lowest(es, x).entity = "Destroyable" /\ shot_type = COLLECT
          \/ Lowest(es, x).entity = "Collectable" /\ shot_type = DESTROY

C6_FireAbsorbed ==
    [][(op'.name = "fire" /\ Absorbed(entities, PlayerColumn, op'.arg)) =>
          /\ entities' = entities
          /\ num_destroyed' = num_destroyed
          /\ num_collected' = num_collected
          /\ total_shots' # total_shots]_vars

\* C6 witness: a Destroy shot was fired, nothing was destroyed, and the
\* player's column holds a Blocker with a Destroyable above it.
C6_Witness ==
    /\ op.name = "fire" /\ op.arg = DESTROY
    /\ total_shots = 1 /\ num_destroyed = 0
    /\ ColumnItems(entities, PlayerColumn) # {}
    /\ Lowest(entities, PlayerColumn).entity = "Blocker"
    /\ \E it \in ColumnItems(entities, PlayerColumn) : it.entity = "Destroyable"

\* The x-offset of a direction: -1 to the left, +1 to the right.
Offset(direction) == IF direction = LEFT THEN -1 ELSE 1

\* The items of es moved by d columns, wrapping at the edges.
Shifted(es, d, sz) ==
    {[pos |-> <<(it.pos[1] + d) % sz, it.pos[2]>>, entity |-> it.entity] : it \in Items(es)}

\* C7: rotate_grid maps every entity at (x, y) to ((x + d) mod size, y) with
\* its kind, d being the direction's offset, and the grid holds nothing else
\* afterwards: as many entities as before, each in its row.
C7_RotateRelabels ==
    [][op'.name = "rotate_grid" =>
          /\ Items(entities') = Shifted(entities, Offset(op'.arg), size)
          /\ Len(entities') = Len(entities)]_vars

\* C7 witness: after a rotation to the right two entities of different
\* kinds are in the grid, one of them in column 0, where it came in from
\* the last column.
C7_Witness ==
    /\ op.name = "rotate_grid" /\ op.arg = RIGHT
    /\ size = 3
    /\ \E a, b \in Items(entities) : a.pos[1] = 0 /\ b.pos[1] # 0 /\ a.entity # b.entity

\* rotate_grid applied n times with one direction.
RECURSIVE rotate_times(_, _, _, _)
rotate_times(es, direction, sz, n) ==
    IF n = 0 THEN es
    ELSE rotate_times(rotate_grid(es, direction, sz), direction, sz, n - 1)

\* C8: from every grid, size rotations with the same direction give back
\* the position-to-entity mapping they started from.
C8_RotateSizeTimes ==
    \A direction \in {LEFT, RIGHT} :
        Items(rotate_times(entities, direction, size, size)) = Items(entities)

\* C8 witness: a grid that rotations have acted on, with entities of
\* different kinds in the first and the last column, where they wrap.
C8_Witness ==
    /\ op.name = "rotate_grid"
    /\ size = 3
    /\ \E a, b \in Items(entities) : a.pos[1] = 0 /\ b.pos[1] = 2 /\ a.entity # b.entity

\* A Destroyable is in row 1.
DestroyableInRow1(es) == \E it \in RowItems(es, 1) : it.entity = "Destroyable"

\* The items of es with y >= 2, each moved down one row.
Fallen(es) ==
    {[pos |-> <<it.pos[1], it.pos[2] - 1>>, entity |-> it.entity] :
        it \in {o \in Items(es) : o.pos[2] >= 2}}

\* C9: a step leaves game_over true exactly when it was true already or a
\* Destroyable was in row 1 when the step began; whatever was in row 1 is
\* gone afterwards (every entity is in the spawn row or fell from a row
\* >= 2), and no counter changes.
C9_StepLoss ==
    [][op'.name = "step" =>
          /\ game_over' = (game_over \/ DestroyableInRow1(entities))
          /\ \A it \in Items(entities') : it.pos[2] = size - 1 \/ it \in Fallen(entities)
          /\ num_collected' = num_collected
          /\ num_destroyed' = num_destroyed
          /\ total_shots' = total_shots]_vars

\* C9 witness: a step of a game of size 3 has ended the game.
C9_Witness == op.name = "step" /\ game_over /\ size = 3 /\ total_shots = 0

\* C10: in a step with no Destroyable in row 1, the rows below size - 1
\* hold afterwards exactly the entities that were in rows >= 2, each one
\* row lower, in its column, with its kind.
C10_StepGravity ==
    [][(op'.name = "step" /\ ~DestroyableInRow1(entities)) =>
          {it \in Items(entities') : it.pos[2] < size - 1} = Fallen(entities)]_vars

\* C10 witness: after a step that did not end the game, row 1 of a game of
\* size 3 holds an entity: it fell from row 2.
C10_Witness ==
    /\ op.name = "step" /\ ~game_over /\ size = 3
    /\ RowItems(entities, 1) # {}

\* C11: has_won() is true exactly when num_collected >= COLLECTION_TARGET;
\* fire never changes game_over, the shot that brings the win is a Collect
\* shot that brings num_collected to the target, and no call takes has_won()
\* from true back to false.
C11_Win ==
    /\ [](has_won <=> num_collected >= COLLECTION_TARGET)
    /\ [][/\ has_won => has_won'
          /\ op'.name = "fire" => game_over' = game_over
          /\ (~has_won /\ has_won') =>
                /\ op'.name = "fire" /\ op'.arg = COLLECT
                /\ num_collected' = COLLECTION_TARGET]_vars

\* C11 witness: the Collect shot that reached the target was just fired and
\* the game is won and not lost.
C11_Witness ==
    /\ op.name = "fire" /\ op.arg = COLLECT
    /\ num_collected = COLLECTION_TARGET
    /\ total_shots = COLLECTION_TARGET
    /\ has_won /\ ~has_lost

\* C12: in a won game step, fire and rotate_grid can still be called and do
\* what they do in any game: a shot is counted and a matching one removes
\* the lowest entity of the player's column and is scored, a step moves
\* the entities down and ends the game when a Destroyable was in row 1, a
\* rotation shifts the columns.
C12_WonStep ==
    has_won =>
        /\ op'.name = "fire" =>
              /\ total_shots' = total_shots + 1
              /\ (/\ ColumnItems(entities, PlayerColumn) # {}
                  /\ Lowest(entities, PlayerColumn).entity = "Collectable"
                  /\ op'.arg = COLLECT) =>
                     /\ num_collected' = num_collected + 1
                     /\ Items(entities') =
                           Items(entities) \ {Lowest(entities, PlayerColumn)}
        /\ op'.name = "step" =>
              /\ game_over' = (game_over \/ DestroyableInRow1(entities))
              /\ ~DestroyableInRow1(entities) =>
                    {it \in Items(entities') : it.pos[2] < size - 1} = Fallen(entities)
        /\ op'.name = "rotate_grid" =>
              Items(entities') = Shifted(entities, Offset(op'.arg), size)

C12_NoHaltOnWin ==
    /\ [](has_won =>
             /\ ENABLED Step
             /\ ENABLED (\E shot_type \in {COLLECT, DESTROY} : fire_call(shot_type))
             /\ ENABLED (\E direction \in {LEFT, RIGHT} : RotateGrid(direction)))
    /\ [][C12_WonStep]_vars

\* C12 witness: a step was the last call and the game is both won and lost.
C12_Witness == op.name = "step" /\ has_won /\ has_lost

\* ------------------------------------------------------------------ C13
\* The entity class with a display character.
Variant(d) == CHOOSE entity \in EntityClasses : display(entity) = d

\* C13: _create_entity returns the matching variant for each of 'P', 'D',
\* 'C' and 'B' (Player, Destroyable, Collectable, Blocker) and raises the
\* unknown-kind error for every other input and for no other.
C13_CreateEntity ==
    op.name = "_create_entity" =>
        IF op.arg \in {"P", "D", "C", "B"}
        THEN raised = None /\ returned = Variant(op.arg)
        ELSE raised = NotImplementedError

\* ------------------------------------------------------------------ C14
\* 0 <= x < size and 1 <= y < size
InGrid(position) ==
    /\ 0 <= position[1] /\ position[1] < size
    /\ 1 <= position[2] /\ position[2] < size

\* The pairs of a serialisation at positions other than p.
Elsewhere(pairs, p) == {t \in pairs : t[1] # p}

C14_Step ==
    /\ (op'.name = "add_entity" /\ InGrid(op'.arg[1])) =>
          LET p == op'.arg[1]
              e == op'.arg[2]
          IN  /\ get_entity(entities', p) = e
              /\ <<p, display(e)>> \in serialise(entities')
              /\ \A t \in serialise(entities') : t[1] = p => t[2] = display(e)
              /\ \A q \in Positions \ {p} :
                    get_entity(entities', q) = get_entity(entities, q)
              /\ Elsewhere(serialise(entities'), p) = Elsewhere(serialise(entities), p)
    /\ op'.name = "serialise" =>
          /\ returned' = {<<it.pos, display(it.entity)>> : it \in Items(entities)}
          /\ UNCHANGED <<size, entities, player_position, num_collected,
                         num_destroyed, total_shots, game_over>>

C15_Step ==
    /\ op'.name = "add_entity" =>
          /\ raised' = None
          /\ IF InGrid(op'.arg[1])
             THEN /\ op'.arg[1] \in dict_keys(entities')
                  /\ get_entity(entities', op'.arg[1]) = op'.arg[2]
             ELSE entities' = entities
    /\ op'.name = "remove_entity" =>
          /\ raised' = None
          /\ op'.arg \notin dict_keys(entities) => entities' = entities
          /\ op'.arg \notin dict_keys(entities')

\* C15: add_entity inserts if and only if 0 <= x < size and 1 <= y < size;
\* at a position in row 0, with x or y >= size or with a negative
\* coordinate it raises no error and leaves the mapping unchanged, and so
\* does remove_entity at a position with no entity.
C15_AddIffInBounds == [][C15_Step]_vars

\* An add_entity at a position outside the grid has left a non-empty grid.
C15_Witness ==
    /\ op.name = "add_entity"
    /\ ~InGrid(op.arg[1])
    /\ op.arg[1][1] = size
    /\ entities # <<>>
    /\ raised = None

\* ------------------------------------------------------------------ C16
C16_Step ==
    /\ op'.name \in {"step", "rotate_grid"} =>
          /\ num_collected' = num_collected
          /\ num_destroyed' = num_destroyed
          /\ total_shots' = total_shots
    /\ <<num_collected', num_destroyed', total_shots'>> #
           <<num_collected, num_destroyed, total_shots>> => op'.name = "fire"
    /\ op'.name \in {"rotate_grid", "fire"} =>
          /\ game_over' = game_over
          /\ player_position' = player_position
    /\ player_position' = <<size' \div 2, 0>>

\* C16: only fire changes the counters: step and rotate_grid leave
\* num_collected, num_destroyed and total_shots unchanged, and neither
\* rotate_grid nor fire changes game_over or the player's position, which
\* is (size // 2, 0).
C16_Frame == [][C16_Step]_vars

\* A step has ended a game in which a shot had been fired and had
\* destroyed an entity.
C16_Witness ==
    /\ op.name = "step" /\ game_over
    /\ total_shots = 1 /\ num_destroyed = 1
    /\ player_position = <<1, 0>>

\* ------------------------------------------------------------------ C17
\* The place in the iteration order of the first Destroyable in row 1.
FirstLoss(es) ==
    CHOOSE k \in 1..Len(es) :
        /\ es[k].pos[2] = 1 /\ es[k].entity = "Destroyable"
        /\ \A i \in 1..(k - 1) : ~(es[i].pos[2] = 1 /\ es[i].entity = "Destroyable")

\* The items with y >= 2 before place k, each moved down one row.
Carried(es, k) ==
    {[pos |-> <<es[i].pos[1], es[i].pos[2] - 1>>, entity |-> es[i].entity] :
        i \in {j \in 1..(k - 1) : es[j].pos[2] >= 2}}

C18_SpawnUnconditional ==
    (game_over \/ DestroyableInRow1(entities)) =>
        IF size >= 3
        THEN ENABLED (/\ Step
                      /\ game_over'
                      /\ raised' = None
                      /\ RowItems(entities', size - 1) # {})
        ELSE ENABLED (Step /\ game_over' /\ raised' = ValueError)

\* A step of a lost game of size 3 has put an entity in the spawn row.
C18_Witness ==
    /\ op.name = "step" /\ game_over /\ size = 3
    /\ RowItems(entities, size - 1) # {}

\* ------------------------------------------------------------------ C19
\* What a step adds to the grid its gravity pass leaves.
Spawned(es, over, after) == Items(after) \ Items(gravity(es, over).entities)

C19_Step ==
    op'.name = "step" =>
        LET carried == Items(gravity(entities, game_over).entities)
            spawned == Spawned(entities, game_over, entities')
        IN  /\ raised' = None
            /\ carried \subseteq Items(entities')
            /\ \A it \in spawned :
                  /\ it.pos[2] = size - 1
                  /\ it.pos[1] \in 0..(size - 1)
                  /\ it.entity \in {"Destroyable", "Collectable", "Blocker"}
                  /\ \A c \in carried : c.pos # it.pos
            /\ Cardinality({it.pos[1] : it \in spawned}) = Cardinality(spawned)
            /\ Cardinality({it \in spawned : it.entity # "Blocker"}) <= size - 3
            /\ Cardinality({it \in spawned : it.entity = "Blocker"}) <= 1
            /\ Cardinality(spawned) <= size - 2

\* C19: for size >= 3 the entities a step spawns are in row size - 1 only,
\* at pairwise distinct x in [0, size), each in a cell the gravity pass left
\* empty; they are 0 to size - 3 Destroyables and Collectables and at most
\* one Blocker, so at most size - 2, never a Player, and the sampling of
\* the columns never fails: a step can always be taken and raises nothing.
C19_Spawn ==
    /\ [](size >= 3 => ENABLED Step)
    /\ [][C19_Step]_vars

\* A step of a game of size 4 has spawned two entities above an entity
\* that the gravity pass carried to row 2.
C19_Witness ==
    /\ op.name = "step" /\ size = 4 /\ raised = None
    /\ Cardinality(RowItems(entities, 3)) = 2
    /\ RowItems(entities, 2) # {}

\* ------------------------------------------------------------------ C20
\* C20: in a game of size 1 or 2, step completes without raising an error
\* and its spawn phase adds no Destroyable and no Collectable.
C20_SmallStep ==
    (op.name = "step" /\ size < 3) =>
        /\ raised = None
        /\ \A it \in RowItems(entities, size - 1) : it.entity = "Blocker"

\* ------------------------------------------------------------------ C21
\* C21: once has_won() or has_lost() holds for the controller's game, the
\* controller makes no further step, fire or rotate_grid call: no step is
\* scheduled any more and no key press changes the game.
C21_ControllerHalts ==
    /\ []((has_won \/ has_lost) => ~timer)
    /\ [][(has_won \/ has_lost) =>
             UNCHANGED <<entities, num_collected, num_destroyed, total_shots,
                         game_over, op>>]_vars

\* ------------------------------------------------------------------ C22
C22_Step ==
    /\ game_over => game_over'
    /\ \A it \in Items(entities) :
          it.entity = "Destroyable" =>
              LET x == it.pos[1]
                  y == it.pos[2]
              IN  /\ op'.name = "step" =>
                        IF y = 1
                        THEN game_over'
                        ELSE \/ game_over' /\ DestroyableInRow1(entities)
                             \/ [pos |-> <<x, y - 1>>, entity |-> "Destroyable"]
                                    \in Items(entities')
                  /\ op'.name = "rotate_grid" =>
                        [pos |-> <<(x + Offset(op'.arg)) % size, y>>,
                         entity |-> "Destroyable"] \in Items(entities')
                  /\ op'.name = "fire" =>
                        \/ it \in Items(entities')
                        \/ /\ op'.arg = DESTROY
                           /\ it = Lowest(entities, PlayerColumn)
                           /\ num_destroyed' = num_destroyed + 1

\* C22: a Destroyable that no fire removes costs the game. A Destroyable
\* is in a row y of 1..size - 1; a step takes it from row 1 into the loss
\* and from a row y >= 2 to row y - 1 of its column, unless that step ends
\* the game; rotate_grid keeps it in its row; fire keeps it where it is
\* unless a Destroy shot removes it; and game_over stays true. So the y-th
\* step after it was seen in row y leaves game_over true, at the latest
\* the step size - 1 after its spawn.
C22_DestroyableCosts ==
    /\ [](\A it \in Items(entities) : it.pos[2] \in 1..(size - 1))
    /\ [][C22_Step]_vars

\* A step has ended a game of size 4, whose Destroyables come from the
\* spawn row alone, after a shot that destroyed nothing.
C22_Witness ==
    /\ op.name = "step" /\ has_lost /\ size = 4
    /\ total_shots = 1 /\ num_destroyed = 0

\* ------------------------------------------------------------------ C23
\* The columns of row y that hold no entity.
EmptyColumns(es, y) == {x \in 0..(size - 1) : \A it \in RowItems(es, y) : it.pos[1] # x}

\* The Blockers of row y.
RowBlockers(es, y) == {it \in RowItems(es, y) : it.entity = "Blocker"}

\* C23: in every state reached from a new Game of size >= 3 by step,
\* rotate_grid and fire alone, each row holds at most size - 2 entities and
\* at most one Blocker, so that at least two of its columns are empty.
C23_RowRoom ==
    size >= 3 =>
        \A y \in 1..(size - 1) :
            /\ Cardinality(RowItems(entities, y)) <= size - 2
            /\ Cardinality(RowBlockers(entities, y)) <= 1
            /\ Cardinality(EmptyColumns(entities, y)) >= 2

\* A rotation of a game of size 4 has left a row with two entities, one of
\* them a Blocker.
C23_Witness ==
    /\ op.name = "rotate_grid" /\ size = 4
    /\ \E y \in 1..(size - 1) :
          /\ Cardinality(RowItems(entities, y)) = 2
          /\ Cardinality(RowBlockers(entities, y)) = 1

====
